---- MODULE Spec2Model ----
(***************************************************************************)
(* A model of libarchive/entry.py: the ArchiveEntry wrapper, its SparseMap *)
(* (a list subclass) and PaxHeaders (a dict subclass), the time codec, the *)
(* filetype predicates and the new_archive_entry context manager.  The     *)
(* archive engine behind ffi is modelled by its per-entry state: a sparse  *)
(* block list with a cursor, a PAX record list with a cursor, the filetype *)
(* and the three timestamps.                                               *)
(***************************************************************************)
EXTENDS Integers, Sequences, FiniteSets, TLC

(* ------------------------------ bounds --------------------------------- *)
\* offsets of sparse blocks range over 0..MaxOff
MaxOff == 1
\* the caller adds at most MaxLen blocks to a sparse map
MaxLen == 2
\* longest sparse list the engine holds before the wrapper is built
MaxEngBlocks == 2
\* a child object (SparseMap, PaxHeaders) is built at most MaxBuild times
MaxBuild == 2
\* longest PAX record list the engine holds before the wrapper is built
MaxPax == 2
\* the caller registers at most MaxSets PAX records
MaxSets == 2
\* timestamps are set to whole seconds 0..MaxSec
MaxSec == 1
\* the caller opens at most MaxScopes new_archive_entry scopes
MaxScopes == 3

(* ------------------------------ values --------------------------------- *)
\* a falsy entry pointer (None)
NULL == 0
\* the pointer the archive stream layer hands to ArchiveEntry.__init__
HANDLE == 1
\* Python's None for a child object that is not built yet
NoObj == 0

\* the lengths of the blocks callers and archives declare: empty and not
LenVals == {0, 1}
Blocks == (0..MaxOff) \X LenVals

RECURSIVE SeqsUpTo(_, _)
SeqsUpTo(S, n) ==
    IF n = 0 THEN {<<>>}
    ELSE LET shorter == SeqsUpTo(S, n - 1)
         IN shorter \cup {Append(s, x) : s \in {t \in shorter : Len(t) = n - 1}, x \in S}

VARIABLES
    generator_stop,   \* the interpreter turns StopIteration raised in a generator into RuntimeError
    _entry_p,         \* ArchiveEntry._entry_p
    _sparse_map,      \* ArchiveEntry._sparse_map: [id, items], id = NoObj for None
    ae_sparse,        \* engine: the entry's sparse block list
    ae_sparse_cur,    \* engine: how many blocks the sparse cursor has passed
    sparse0,          \* the engine's sparse list when the wrapper was built
    sparse_cur0,      \* where the engine's sparse cursor was when the wrapper was built
    added,            \* the blocks the caller has added with append/extend, in order
    add_log,          \* the (offset, length) of every add-block call the engine completed
    _pax_headers,     \* ArchiveEntry._pax_headers: [id, items], id = NoObj for None
    ae_pax,           \* engine: the entry's PAX records <<key bytes, value bytes>>, in walk order
    ae_pax_cur,       \* engine: how many records the PAX cursor has passed
    pax0,             \* the engine's PAX records when the wrapper was built
    kw_log,           \* the <<key, value, length>> of every add-record call the engine completed
    ae_filetype,      \* engine: the value entry_filetype returns
    ae_owner,         \* engine: <<uid, gid>>
    ae_time,          \* engine: field -> <<seconds, nanoseconds>>
    time_set,         \* field -> the <<S, N>> the caller last set it to
    ae_link,          \* engine: the four link targets of the entry
    ar_data,          \* engine: the bytes of the member's data not read yet
    buf,              \* the buffer of the running get_blocks generator
    gb,               \* the get_blocks generator: [pc, block_size]
    chunks,           \* the chunks the generator has yielded, in order
    delivered,        \* the bytes the engine's read-data calls have written for the generator
    reads,            \* what each read-data call of the generator returned
    pc,               \* where the caller is with respect to a new_archive_entry scope
    n_new,            \* how many handles entry_new has returned
    free_log,         \* the handles passed to entry_free, in order
    exits,            \* the ways scopes have been left so far
    builds,           \* how often each child's constructor reset the engine's cursor
    returned,         \* the object ids the child accessors have returned
    calls,            \* the engine calls of the last operation: <<primitive, handle, ...>>
    arg,              \* the arguments of the last operation
    result            \* the outcome of the last operation

sparseVars == <<_sparse_map, ae_sparse, ae_sparse_cur, sparse0, sparse_cur0, added, add_log>>
paxVars == <<_pax_headers, ae_pax, ae_pax_cur, pax0, kw_log>>
metaVars == <<ae_filetype, ae_owner, ae_time, time_set, ae_link>>
readVars == <<ar_data, buf, gb, chunks, delivered, reads>>
scopeVars == <<pc, n_new, free_log, exits>>
childVars == <<builds, returned>>
vars == <<generator_stop, _entry_p, sparseVars, paxVars, metaVars, readVars,
          scopeVars, childVars, calls, arg, result>>

Ok(op, v) == [op |-> op, kind |-> "ok", val |-> v]
Raised(op, e) == [op |-> op, kind |-> e, val |-> "none"]

\* a NULL handle dereferenced by the engine ended the process
Alive == result.kind # "SIGSEGV"

StaleError == "ValueError: attempt to use entry_p when not valid"
InvalidKeyError == "ValueError: need string keys"

(* ------------------------- engine: sparse list ------------------------- *)
\* add-block: the engine drops a block that overlaps its last block, grows
\* the last block when the new one starts where it ends, else appends
EngineSparseAdd(list, offset, length) ==
    IF offset < 0 \/ length < 0 THEN list
    ELSE IF list = <<>> THEN <<<<offset, length>>>>
    ELSE LET t == list[Len(list)]
         IN IF t[1] + t[2] > offset THEN list
            ELSE IF t[1] + t[2] = offset
                 THEN [list EXCEPT ![Len(list)] = <<t[1], t[2] + length>>]
                 ELSE Append(list, <<offset, length>>)

\* the lists the engine can hold: every one is built by add-block calls
RECURSIVE EngineBuilt(_)
EngineBuilt(bs) ==
    IF bs = <<>> THEN <<>>
    ELSE LET b == bs[Len(bs)]
         IN EngineSparseAdd(EngineBuilt(SubSeq(bs, 1, Len(bs) - 1)), b[1], b[2])

EngineLists == {EngineBuilt(bs) : bs \in SeqsUpTo(Blocks, MaxEngBlocks)}

(* ------------------------------ SparseMap ------------------------------ *)
\* The sparse side of one handler's run: the engine list and cursor, the
\* local list, the engine's add log, the calls made and the error raised.
SparseWorld(items) ==
    [list |-> ae_sparse, cur |-> ae_sparse_cur, items |-> items,
     log |-> add_log, calls |-> <<>>, err |-> "none"]

\* ArchiveEntry.entry_p: the error it raises, "none" when the pointer is truthy
entry_p(p) == IF p = NULL THEN StaleError ELSE "none"

\* a variant that appends to the list before it calls the engine
_add_map_local_first(w, p, offset, length, raises) ==
    IF entry_p(p) # "none" THEN [w EXCEPT !.err = entry_p(p)]
    ELSE IF raises
    THEN [w EXCEPT !.items = Append(@, <<offset, length>>),
                   !.calls = Append(@, <<"entry_sparse_add_entry", p>>),
                   !.err = "ArgumentError"]
    ELSE [w EXCEPT !.items = Append(@, <<offset, length>>),
                   !.calls = Append(@, <<"entry_sparse_add_entry", p>>),
                   !.list = EngineSparseAdd(@, offset, length),
                   !.log = Append(@, <<offset, length>>)]

\* SparseMap._add_map: the engine call, then list.append; the engine call
\* raises (ctypes rejects an argument) when raises is set
_add_map(w, p, offset, length, raises) ==
    IF entry_p(p) # "none" THEN [w EXCEPT !.err = entry_p(p)]
    ELSE IF raises
    THEN [w EXCEPT !.calls = Append(@, <<"entry_sparse_add_entry", p>>),
                   !.err = "ArgumentError"]
    ELSE [w EXCEPT !.calls = Append(@, <<"entry_sparse_add_entry", p>>),
                   !.list = EngineSparseAdd(@, offset, length),
                   !.log = Append(@, <<offset, length>>),
                   !.items = Append(@, <<offset, length>>)]

\* SparseMap.append
SparseMap_append(w, p, map_entry, raises) ==
    _add_map(w, p, map_entry[1], map_entry[2], raises)

\* a variant that adds the pairs last to first
RECURSIVE SparseMap_extend_reversed(_, _, _, _)
SparseMap_extend_reversed(w, p, iterable, raisesAt) ==
    IF iterable = <<>> \/ w.err # "none" THEN w
    ELSE LET n == Len(iterable)
         IN SparseMap_extend_reversed(
                _add_map(w, p, iterable[n][1], iterable[n][2], raisesAt = n),
                p, SubSeq(iterable, 1, n - 1), raisesAt)

\* SparseMap.extend over a sequence the caller passes; the raisesAt-th engine
\* call raises (0: none does)
RECURSIVE SparseMap_extend(_, _, _, _)
SparseMap_extend(w, p, iterable, raisesAt) ==
    IF iterable = <<>> \/ w.err # "none" THEN w
    ELSE SparseMap_extend(
             _add_map(w, p, iterable[1][1], iterable[1][2], raisesAt = 1),
             p, Tail(iterable), IF raisesAt = 0 THEN 0 ELSE raisesAt - 1)

\* entry_sparse_next: the block under the cursor, or a non-OK status
entry_sparse_next(w, p) ==
    IF w.cur < Len(w.list)
    THEN [status |-> "ARCHIVE_OK", block |-> w.list[w.cur + 1],
          w |-> [w EXCEPT !.cur = @ + 1,
                          !.calls = Append(@, <<"entry_sparse_next", p>>)]]
    ELSE [status |-> "ARCHIVE_WARN", block |-> <<0, 0>>,
          w |-> [w EXCEPT !.calls = Append(@, <<"entry_sparse_next", p>>)]]

\* SparseMap.extend over the generator entry_sparse_map(entry_p): each block
\* the generator yields goes through _add_map; at the non-OK status the
\* generator raises StopIteration, which ends the loop or, under
\* generator_stop, reaches the caller as RuntimeError
RECURSIVE extend_entry_sparse_map(_, _)
extend_entry_sparse_map(w, p) ==
    LET n == entry_sparse_next(w, p)
    IN IF n.status # "ARCHIVE_OK"
       THEN IF generator_stop THEN [n.w EXCEPT !.err = "RuntimeError"] ELSE n.w
       ELSE LET a == _add_map(n.w, p, n.block[1], n.block[2], FALSE)
            IN IF a.err # "none" THEN a ELSE extend_entry_sparse_map(a, p)

\* a variant that drains from wherever the cursor stands
SparseMap_update_from_entry_no_reset(w, p) ==
    IF entry_p(p) # "none" THEN [w EXCEPT !.err = entry_p(p)]
    ELSE extend_entry_sparse_map(w, p)

\* SparseMap._update_from_entry
SparseMap_update_from_entry(w, p) ==
    IF entry_p(p) # "none" THEN [w EXCEPT !.err = entry_p(p)]
    ELSE extend_entry_sparse_map(
             [w EXCEPT !.cur = 0,
                       !.calls = Append(@, <<"entry_sparse_reset", p>>)], p)

\* SparseMap.__init__
SparseMap_init(p) == SparseMap_update_from_entry(SparseWorld(<<>>), p)

\* whether the calls include the primitive
Called(cs, primitive) == \E i \in 1..Len(cs) : cs[i][1] = primitive

\* ArchiveEntry.sparse_map with _sparse_map None: build the map, keep it
sparse_map_build ==
    /\ builds["sparse"] < MaxBuild
    /\ LET w == SparseMap_init(_entry_p)
           id == builds["sparse"] + 1
       IN /\ ae_sparse' = w.list
          /\ ae_sparse_cur' = w.cur
          /\ add_log' = w.log
          /\ calls' = w.calls
          /\ builds' = IF Called(w.calls, "entry_sparse_reset")
                       THEN [builds EXCEPT !["sparse"] = id] ELSE builds
          /\ IF w.err # "none"
             THEN /\ result' = Raised("sparse_map", w.err)
                  /\ UNCHANGED <<_sparse_map, returned>>
             ELSE /\ _sparse_map' = [id |-> id, items |-> w.items]
                  /\ returned' = [returned EXCEPT !["sparse"] = @ \cup {id}]
                  /\ result' = Ok("sparse_map", id)
    /\ arg' = <<>>
    /\ UNCHANGED <<generator_stop, readVars, _entry_p, sparse0, sparse_cur0, added, paxVars, metaVars, scopeVars>>

\* ArchiveEntry.sparse_map with _sparse_map set: return it
sparse_map_cached ==
    /\ returned' = [returned EXCEPT !["sparse"] = @ \cup {_sparse_map.id}]
    /\ result' = Ok("sparse_map", _sparse_map.id)
    /\ calls' = <<>>
    /\ arg' = <<>>
    /\ UNCHANGED <<generator_stop, readVars, _entry_p, sparseVars, paxVars, metaVars, scopeVars, builds>>

\* ArchiveEntry.sparse_map
sparse_map ==
    /\ Alive
    /\ IF _sparse_map.id # NoObj THEN sparse_map_cached ELSE sparse_map_build

\* the caller, holding the map: entry.sparse_map.append(map_entry)
Append_block ==
    /\ Alive
    /\ _sparse_map.id # NoObj
    /\ Len(added) < MaxLen
    /\ \E b \in Blocks, raises \in BOOLEAN :
         LET w == SparseMap_append(SparseWorld(_sparse_map.items), _entry_p, b, raises)
         IN /\ _sparse_map' = [_sparse_map EXCEPT !.items = w.items]
            /\ ae_sparse' = w.list
            /\ ae_sparse_cur' = w.cur
            /\ add_log' = w.log
            /\ calls' = w.calls
            /\ added' = IF _entry_p = NULL \/ raises THEN added ELSE Append(added, b)
            /\ arg' = <<>>
            /\ result' = IF w.err # "none" THEN Raised("append", w.err)
                         ELSE Ok("append", "None")
    /\ UNCHANGED <<generator_stop, readVars, _entry_p, sparse0, sparse_cur0, paxVars, metaVars, scopeVars, childVars>>

\* the caller, holding the map: entry.sparse_map.extend(iterable) with two
\* blocks; none of the engine calls raises, or the last one does
Extend_blocks ==
    /\ Alive
    /\ _sparse_map.id # NoObj
    /\ \E bs \in Blocks \X Blocks :
         /\ Len(added) + Len(bs) <= MaxLen
         /\ \E raisesAt \in {0, Len(bs)} :
              LET w == SparseMap_extend(SparseWorld(_sparse_map.items), _entry_p, bs, raisesAt)
                  done == IF _entry_p = NULL THEN <<>>
                          ELSE IF raisesAt = 0 THEN bs
                          ELSE SubSeq(bs, 1, raisesAt - 1)
              IN /\ _sparse_map' = [_sparse_map EXCEPT !.items = w.items]
                 /\ ae_sparse' = w.list
                 /\ ae_sparse_cur' = w.cur
                 /\ add_log' = w.log
                 /\ calls' = w.calls
                 /\ added' = added \o done
                 /\ arg' = <<>>
                 /\ result' = IF w.err # "none" THEN Raised("extend", w.err)
                              ELSE Ok("extend", "None")
    /\ UNCHANGED <<generator_stop, readVars, _entry_p, sparse0, sparse_cur0, paxVars, metaVars, scopeVars, childVars>>

\* a variant of item assignment that replaces the item
SparseMap_setitem_replaces(items, index, value) ==
    IF index \in 1..Len(items)
    THEN [err |-> "none", items |-> [items EXCEPT ![index] = value]]
    ELSE [err |-> "IndexError", items |-> items]

\* SparseMap.__setitem__
SparseMap_setitem(items, index, value) ==
    [err |-> "NotImplementedError", items |-> items]

\* SparseMap.insert
SparseMap_insert(items, index, value) ==
    [err |-> "NotImplementedError", items |-> items]

\* the caller, holding the map: entry.sparse_map[index] = value
Setitem_block ==
    /\ Alive
    /\ _sparse_map.id # NoObj
    /\ \E index \in 1..(Len(_sparse_map.items) + 1), value \in {<<0, 1>>} :
         LET r == SparseMap_setitem(_sparse_map.items, index, value)
         IN /\ _sparse_map' = [_sparse_map EXCEPT !.items = r.items]
            /\ arg' = <<index>>
            /\ result' = IF r.err # "none" THEN Raised("setitem", r.err)
                         ELSE Ok("setitem", "None")
    /\ calls' = <<>>
    /\ UNCHANGED <<generator_stop, readVars, _entry_p, ae_sparse, ae_sparse_cur, sparse0, sparse_cur0,
                   added, add_log, paxVars, metaVars, scopeVars, childVars>>

\* the caller, holding the map: entry.sparse_map.insert(index, value)
Insert_block ==
    /\ Alive
    /\ _sparse_map.id # NoObj
    /\ \E index \in 1..(Len(_sparse_map.items) + 1), value \in {<<0, 1>>} :
         LET r == SparseMap_insert(_sparse_map.items, index, value)
         IN /\ _sparse_map' = [_sparse_map EXCEPT !.items = r.items]
            /\ arg' = <<index>>
            /\ result' = IF r.err # "none" THEN Raised("insert", r.err)
                         ELSE Ok("insert", "None")
    /\ calls' = <<>>
    /\ UNCHANGED <<generator_stop, readVars, _entry_p, ae_sparse, ae_sparse_cur, sparse0, sparse_cur0,
                   added, add_log, paxVars, metaVars, scopeVars, childVars>>

\* the archive stream layer moves past the member: the entry loses its handle
Invalidate ==
    /\ Alive
    /\ _entry_p # NULL
    /\ _entry_p' = NULL
    /\ calls' = <<>>
    /\ arg' = <<>>
    /\ result' = Ok("invalidate", "None")
    /\ UNCHANGED <<generator_stop, readVars, sparseVars, paxVars, metaVars, scopeVars, childVars>>

(* ----------------------------- PAX codec ------------------------------- *)
\* Keys and values are sequences of byte values (bytes) or of code points
\* (str).  The byte strings of the model are ASCII, the lone byte 0xFF and
\* the two-byte UTF-8 form of U+00E9.
IsHex(c) == c \in (48..57) \cup (65..70) \cup (97..102)
HexVal(c) == IF c \in 48..57 THEN c - 48 ELSE IF c \in 65..70 THEN c - 55 ELSE c - 87

\* urllib's unquote: %XX with two hex digits becomes the character XX, any
\* other % stays
RECURSIVE unquote(_)
unquote(s) ==
    IF s = <<>> THEN <<>>
    ELSE IF s[1] = 37 /\ Len(s) >= 3 /\ IsHex(s[2]) /\ IsHex(s[3])
         THEN <<16 * HexVal(s[2]) + HexVal(s[3])>> \o unquote(SubSeq(s, 4, Len(s)))
         ELSE <<s[1]>> \o unquote(Tail(s))

\* bytes.decode('utf-8', 'surrogateescape') for one- and two-byte forms: a
\* byte that starts no valid form becomes the surrogate U+DC00 + byte
RECURSIVE decode_utf8(_)
decode_utf8(bs) ==
    IF bs = <<>> THEN <<>>
    ELSE IF bs[1] < 128 THEN <<bs[1]>> \o decode_utf8(Tail(bs))
    ELSE IF bs[1] \in 194..223 /\ Len(bs) >= 2 /\ bs[2] \in 128..191
         THEN <<(bs[1] % 32) * 64 + (bs[2] % 64)>> \o decode_utf8(SubSeq(bs, 3, Len(bs)))
         ELSE <<56320 + bs[1]>> \o decode_utf8(Tail(bs))

\* str.encode('utf-8') as the foreign call marshals a str, same forms
RECURSIVE encode_utf8(_)
encode_utf8(cs) ==
    IF cs = <<>> THEN <<>>
    ELSE IF cs[1] < 128 THEN <<cs[1]>> \o encode_utf8(Tail(cs))
    ELSE IF cs[1] < 2048
         THEN <<192 + (cs[1] \div 64), 128 + (cs[1] % 64)>> \o encode_utf8(Tail(cs))
         ELSE <<cs[1] - 56320>> \o encode_utf8(Tail(cs))

Str(cs) == [t |-> "str", v |-> cs]
Bytes(bs) == [t |-> "bytes", v |-> bs]
IntObj(ds) == [t |-> "int", v |-> ds]

\* decode_pax_kw: the key is decoded and unquoted, the value is decoded
decode_pax_kw(key, value) ==
    <<unquote(decode_utf8(key)), Str(decode_utf8(value))>>

\* str(value) of a non-negative int given by its decimal digits
str(value) == Str([i \in 1..Len(value.v) |-> 48 + value.v[i]])

\* the raw records of the model: keys "a", "%61" (which unquotes to "a"), "b";
\* values "x", the byte 0xFF and the UTF-8 form of U+00E9
RawKeys == {<<97>>, <<37, 54, 49>>, <<98>>}
RawVals == {<<120>>, <<255>>, <<195, 169>>}
RawRecords == RawKeys \X RawVals

\* what callers pass to PaxHeaders.__setitem__: keys "a", "b" and b"a";
\* values "x", b"\xff" and the int 7
SetKeys == {Str(<<97>>), Str(<<98>>), Bytes(<<97>>)}
SetVals == {Str(<<120>>), Bytes(<<255>>), IntObj(<<7>>)}

(* ------------------------------ dict ----------------------------------- *)
EmptyDict == [k \in {} |-> Str(<<>>)]
DictSet(d, k, v) == [x \in DOMAIN d \cup {k} |-> IF x = k THEN v ELSE d[x]]

\* a variant that lets a later record replace an earlier one
dict_setdefault_overwrites(d, k, v) == DictSet(d, k, v)

\* dict.setdefault
dict_setdefault(d, k, v) == IF k \in DOMAIN d THEN d ELSE DictSet(d, k, v)

(* ------------------------- engine: PAX records ------------------------- *)
\* add-record: the engine keeps the first length bytes of the value and
\* walks its records newest first
EnginePaxAdd(list, key, value, length) ==
    LET kb == encode_utf8(key.v)
        vb == IF value.t = "str" THEN encode_utf8(value.v) ELSE value.v
        n == IF length < Len(vb) THEN length ELSE Len(vb)
    IN <<<<kb, SubSeq(vb, 1, n)>>>> \o list

(* ----------------------------- PaxHeaders ------------------------------ *)
PaxWorld(items) ==
    [list |-> ae_pax, cur |-> ae_pax_cur, items |-> items,
     log |-> kw_log, calls |-> <<>>, err |-> "none"]

\* entry_pax_kw_next: the record under the cursor, or a non-OK status
entry_pax_kw_next(w, p) ==
    IF w.cur < Len(w.list)
    THEN [status |-> "ARCHIVE_OK", rec |-> w.list[w.cur + 1],
          w |-> [w EXCEPT !.cur = @ + 1,
                          !.calls = Append(@, <<"entry_pax_kw_next", p>>)]]
    ELSE [status |-> "ARCHIVE_WARN", rec |-> <<<<>>, <<>>>>,
          w |-> [w EXCEPT !.calls = Append(@, <<"entry_pax_kw_next", p>>)]]

\* the loop of PaxHeaders._update_from_entry over the generator
\* entry_pax_kw(entry_p); the generator ends as entry_sparse_map does
RECURSIVE walk_entry_pax_kw(_, _)
walk_entry_pax_kw(w, p) ==
    LET n == entry_pax_kw_next(w, p)
    IN IF n.status # "ARCHIVE_OK"
       THEN IF generator_stop THEN [n.w EXCEPT !.err = "RuntimeError"] ELSE n.w
       ELSE LET kv == decode_pax_kw(n.rec[1], n.rec[2])
            IN walk_entry_pax_kw(
                   [n.w EXCEPT !.items = dict_setdefault(@, kv[1], kv[2])], p)

\* PaxHeaders._update_from_entry
PaxHeaders_update_from_entry(w, p) ==
    IF entry_p(p) # "none" THEN [w EXCEPT !.err = entry_p(p)]
    ELSE walk_entry_pax_kw(
             [w EXCEPT !.cur = 0,
                       !.calls = Append(@, <<"entry_pax_kw_reset", p>>)], p)

\* PaxHeaders.__init__ as ArchiveEntry.pax_headers calls it
PaxHeaders_init(p) == PaxHeaders_update_from_entry(PaxWorld(EmptyDict), p)

\* a variant that skips the key's type check
PaxHeaders_setitem_any_key(w, p, key, value, raises) ==
    LET val == IF value.t \in {"str", "bytes"} THEN value ELSE str(value)
    IN IF entry_p(p) # "none" THEN [w EXCEPT !.err = entry_p(p)]
       ELSE [w EXCEPT !.calls = Append(@, <<"entry_pax_kw_add_entry", p, key.v, val, Len(val.v)>>),
                      !.list = EnginePaxAdd(@, key, val, Len(val.v)),
                      !.log = Append(@, <<key.v, val, Len(val.v)>>),
                      !.items = DictSet(@, key.v, val)]

\* a variant that caches the value as passed, before str()
PaxHeaders_setitem_caches_raw(w, p, key, value, raises) ==
    LET val == IF value.t \in {"str", "bytes"} THEN value ELSE str(value)
    IN IF key.t # "str" THEN [w EXCEPT !.err = InvalidKeyError]
       ELSE IF entry_p(p) # "none" THEN [w EXCEPT !.err = entry_p(p)]
       ELSE [w EXCEPT !.calls = Append(@, <<"entry_pax_kw_add_entry", p, key.v, val, Len(val.v)>>),
                      !.list = EnginePaxAdd(@, key, val, Len(val.v)),
                      !.log = Append(@, <<key.v, val, Len(val.v)>>),
                      !.items = DictSet(@, key.v, value)]

\* PaxHeaders.__setitem__: the key check, the value's str(), the engine
\* call (which raises when raises is set), then dict.__setitem__
PaxHeaders_setitem(w, p, key, value, raises) ==
    LET val == IF value.t \in {"str", "bytes"} THEN value ELSE str(value)
    IN IF key.t # "str" THEN [w EXCEPT !.err = InvalidKeyError]
       ELSE IF entry_p(p) # "none" THEN [w EXCEPT !.err = entry_p(p)]
       ELSE IF raises
       THEN [w EXCEPT !.calls = Append(@, <<"entry_pax_kw_add_entry", p, key.v, val, Len(val.v)>>),
                      !.err = "ArgumentError"]
       ELSE [w EXCEPT !.calls = Append(@, <<"entry_pax_kw_add_entry", p, key.v, val, Len(val.v)>>),
                      !.list = EnginePaxAdd(@, key, val, Len(val.v)),
                      !.log = Append(@, <<key.v, val, Len(val.v)>>),
                      !.items = DictSet(@, key.v, val)]

\* PaxHeaders.update over the items of dict(*args, **kwargs), in the dict's
\* order; the raisesAt-th engine call raises (0: none does)
RECURSIVE PaxHeaders_update(_, _, _, _)
PaxHeaders_update(w, p, kvs, raisesAt) ==
    IF kvs = <<>> \/ w.err # "none" THEN w
    ELSE PaxHeaders_update(
             PaxHeaders_setitem(w, p, kvs[1][1], kvs[1][2], raisesAt = 1),
             p, Tail(kvs), IF raisesAt = 0 THEN 0 ELSE raisesAt - 1)

\* ArchiveEntry.pax_headers with _pax_headers None: build the headers, keep them
pax_headers_build ==
    /\ builds["pax"] < MaxBuild
    /\ LET w == PaxHeaders_init(_entry_p)
           id == builds["pax"] + 1
       IN /\ ae_pax' = w.list
          /\ ae_pax_cur' = w.cur
          /\ kw_log' = w.log
          /\ calls' = w.calls
          /\ builds' = IF Called(w.calls, "entry_pax_kw_reset")
                       THEN [builds EXCEPT !["pax"] = id] ELSE builds
          /\ IF w.err # "none"
             THEN /\ result' = Raised("pax_headers", w.err)
                  /\ UNCHANGED <<_pax_headers, returned>>
             ELSE /\ _pax_headers' = [id |-> id, items |-> w.items]
                  /\ returned' = [returned EXCEPT !["pax"] = @ \cup {id}]
                  /\ result' = Ok("pax_headers", id)
    /\ arg' = <<>>
    /\ UNCHANGED <<generator_stop, readVars, _entry_p, pax0, sparseVars, metaVars, scopeVars>>

\* ArchiveEntry.pax_headers with _pax_headers set: return it
pax_headers_cached ==
    /\ returned' = [returned EXCEPT !["pax"] = @ \cup {_pax_headers.id}]
    /\ result' = Ok("pax_headers", _pax_headers.id)
    /\ calls' = <<>>
    /\ arg' = <<>>
    /\ UNCHANGED <<generator_stop, readVars, _entry_p, sparseVars, paxVars, metaVars, scopeVars, builds>>

\* ArchiveEntry.pax_headers
pax_headers ==
    /\ Alive
    /\ IF _pax_headers.id # NoObj THEN pax_headers_cached ELSE pax_headers_build

\* the caller, holding the headers: entry.pax_headers()[key] = value
Set_header ==
    /\ Alive
    /\ _pax_headers.id # NoObj
    /\ Len(kw_log) < MaxSets
    /\ \E key \in SetKeys, value \in SetVals, raises \in BOOLEAN :
         LET w == PaxHeaders_setitem(PaxWorld(_pax_headers.items), _entry_p, key, value, raises)
         IN /\ _pax_headers' = [_pax_headers EXCEPT !.items = w.items]
            /\ ae_pax' = w.list
            /\ ae_pax_cur' = w.cur
            /\ kw_log' = w.log
            /\ calls' = w.calls
            /\ arg' = <<key, value>>
            /\ result' = IF w.err # "none" THEN Raised("set", w.err)
                         ELSE Ok("set", "None")
    /\ UNCHANGED <<generator_stop, readVars, _entry_p, pax0, sparseVars, metaVars, scopeVars, childVars>>

\* the mappings callers pass to update, as their items in the dict's order
Mappings ==
    {kvs \in SeqsUpTo(SetKeys \X SetVals, 2) :
        \A i, j \in 1..Len(kvs) : i # j => kvs[i][1] # kvs[j][1]}

\* the caller, holding the headers: entry.pax_headers().update(mapping)
Update_headers ==
    /\ Alive
    /\ _pax_headers.id # NoObj
    /\ \E kvs \in Mappings :
         /\ Len(kw_log) + Len(kvs) <= MaxSets
         /\ \E raisesAt \in 0..Len(kvs) :
              LET w == PaxHeaders_update(PaxWorld(_pax_headers.items), _entry_p, kvs, raisesAt)
              IN /\ _pax_headers' = [_pax_headers EXCEPT !.items = w.items]
                 /\ ae_pax' = w.list
                 /\ ae_pax_cur' = w.cur
                 /\ kw_log' = w.log
                 /\ calls' = w.calls
                 /\ arg' = <<kvs>>
                 /\ result' = IF w.err # "none" THEN Raised("update", w.err)
                              ELSE Ok("update", "None")
    /\ UNCHANGED <<generator_stop, readVars, _entry_p, pax0, sparseVars, metaVars, scopeVars, childVars>>

(* ------------------------- filetype predicates ------------------------- *)
S_IFMT == 61440
S_IFBLK == 24576
S_IFCHR == 8192
S_IFDIR == 16384
S_IFIFO == 4096
S_IFLNK == 40960
S_IFREG == 32768
S_IFSOCK == 49152

\* Python's & on non-negative ints
RECURSIVE BitAnd(_, _)
BitAnd(a, b) ==
    IF a = 0 \/ b = 0 THEN 0
    ELSE (a % 2) * (b % 2) + 2 * BitAnd(a \div 2, b \div 2)

\* the values entry_filetype returns in the model: each of the sixteen
\* values of the four type bits, without and with permission bits 0o644
Filetypes == {t * 4096 + perm : t \in 0..15, perm \in {0, 420}}

isblk(filetype) == BitAnd(filetype, S_IFMT) = S_IFBLK
ischr(filetype) == BitAnd(filetype, S_IFMT) = S_IFCHR
isdir(filetype) == BitAnd(filetype, S_IFMT) = S_IFDIR
isfifo(filetype) == BitAnd(filetype, S_IFMT) = S_IFIFO
issym(filetype) == BitAnd(filetype, S_IFMT) = S_IFLNK
isreg(filetype) == BitAnd(filetype, S_IFMT) = S_IFREG
isfile(filetype) == isreg(filetype)
issock(filetype) == BitAnd(filetype, S_IFMT) = S_IFSOCK

\* a variant that leaves sockets out and takes directories in
isdev_wrong_types(filetype) ==
    ischr(filetype) \/ isblk(filetype) \/ isfifo(filetype) \/ isdir(filetype)

\* ArchiveEntry.isdev
isdev(filetype) ==
    ischr(filetype) \/ isblk(filetype) \/ isfifo(filetype) \/ issock(filetype)

Predicates(filetype) ==
    [filetype |-> filetype,
     isblk |-> isblk(filetype), ischr |-> ischr(filetype), isdir |-> isdir(filetype),
     isfifo |-> isfifo(filetype), issym |-> issym(filetype), isreg |-> isreg(filetype),
     isfile |-> isfile(filetype), issock |-> issock(filetype), isdev |-> isdev(filetype)]

\* ArchiveEntry.filetype / uid / gid: the pointer goes to the engine as it is;
\* behind a NULL pointer the engine crashes or reads whatever is there
ScalarProps == {"filetype", "uid", "gid"}
Owners == {0, 1000}

EngineScalar(prop) ==
    IF prop = "filetype" THEN ae_filetype
    ELSE IF prop = "uid" THEN ae_owner[1] ELSE ae_owner[2]

Get_scalar ==
    /\ Alive
    /\ \E prop \in ScalarProps :
         /\ calls' = <<<<"entry_" \o prop, _entry_p>>>>
         /\ arg' = <<prop>>
         /\ IF _entry_p # NULL
            THEN result' = Ok(prop, EngineScalar(prop))
            ELSE \/ result' = Raised(prop, "SIGSEGV")
                 \/ \E garbage \in (IF prop = "filetype" THEN Filetypes ELSE Owners) :
                      result' = Ok(prop, garbage)
    /\ UNCHANGED <<generator_stop, readVars, _entry_p, sparseVars, paxVars, metaVars, scopeVars, childVars>>

\* the caller reads every classification predicate of the entry
Classify ==
    /\ Alive
    /\ calls' = <<<<"entry_filetype", _entry_p>>>>
    /\ arg' = <<>>
    /\ IF _entry_p # NULL
       THEN result' = Ok("classify", Predicates(ae_filetype))
       ELSE \/ result' = Raised("classify", "SIGSEGV")
            \/ \E garbage \in Filetypes : result' = Ok("classify", Predicates(garbage))
    /\ UNCHANGED <<generator_stop, readVars, _entry_p, sparseVars, paxVars, metaVars, scopeVars, childVars>>

(* ------------------------------ time codec ----------------------------- *)
NanosPerSec == 1000000000

TimeFields == {"atime", "mtime", "ctime"}
SecVals == 0..MaxSec
NsecVals == {0, 1, NanosPerSec - 1}

\* a Python number: an int, or the float whole + frac / NanosPerSec
PyInt(n) == [type |-> "int", whole |-> n, frac |-> 0]
PyFloat(whole, nanos) ==
    [type |-> "float", whole |-> whole + nanos \div NanosPerSec, frac |-> nanos % NanosPerSec]

\* a variant that always returns a float
format_time_always_float(seconds, nanos) == PyFloat(seconds, nanos)

\* format_time
format_time(seconds, nanos) ==
    IF nanos # 0 THEN PyFloat(seconds, nanos) ELSE PyInt(seconds)

\* ArchiveEntry.atime / mtime / ctime: entry_<field> and entry_<field>_nsec
entry_time(times, field) == format_time(times[field][1], times[field][2])

\* entry_set_<field>: the engine keeps the pair
EngineSetTime(times, field, sec, nsec) == [times EXCEPT ![field] = <<sec, nsec>>]

Get_time ==
    /\ Alive
    /\ \E field \in TimeFields :
         /\ calls' = <<<<"entry_" \o field, _entry_p>>, <<"entry_" \o field \o "_nsec", _entry_p>>>>
         /\ arg' = <<field>>
         /\ IF _entry_p # NULL
            THEN result' = Ok(field, entry_time(ae_time, field))
            ELSE \/ result' = Raised(field, "SIGSEGV")
                 \/ \E s \in SecVals, n \in NsecVals : result' = Ok(field, format_time(s, n))
    /\ UNCHANGED <<generator_stop, readVars, _entry_p, sparseVars, paxVars, metaVars, scopeVars, childVars>>

\* ArchiveEntry.set_atime / set_mtime / set_ctime
Set_time ==
    /\ Alive
    /\ \E field \in TimeFields, timestamp_sec \in SecVals, timestamp_nsec \in NsecVals :
         /\ calls' = <<<<"entry_set_" \o field, _entry_p>>>>
         /\ arg' = <<field, timestamp_sec, timestamp_nsec>>
         /\ IF _entry_p # NULL
            THEN /\ ae_time' = EngineSetTime(ae_time, field, timestamp_sec, timestamp_nsec)
                 /\ time_set' = [time_set EXCEPT ![field] = <<timestamp_sec, timestamp_nsec>>]
                 /\ result' = Ok("set_" \o field, "None")
            ELSE /\ result' = Raised("set_" \o field, "SIGSEGV")
                 /\ UNCHANGED <<ae_time, time_set>>
    /\ UNCHANGED <<generator_stop, readVars, _entry_p, sparseVars, paxVars, ae_filetype, ae_owner, ae_link,
                   scopeVars, childVars>>

(* -------------------------- new_archive_entry -------------------------- *)
ExitKinds == {"normal", "return", "raise"}

\* a variant without try/finally: a failure in the body skips entry_free
new_archive_entry_exit_no_finally(log, handle, kind) ==
    IF kind = "raise" THEN log ELSE Append(log, handle)

\* new_archive_entry after the yield: the finally clause frees the handle
\* however the body was left
new_archive_entry_exit(log, handle, kind) == Append(log, handle)

\* with new_archive_entry() as entry_p: entry_new, then the body starts with
\* an ArchiveEntry around the new handle
Scope_enter ==
    /\ Alive
    /\ pc = "outside"
    /\ n_new < MaxScopes
    /\ n_new' = n_new + 1
    /\ _entry_p' = n_new + 1
    /\ pc' = "body"
    /\ ae_time' = [f \in TimeFields |-> <<0, 0>>]
    /\ time_set' = [f \in TimeFields |-> <<0, 0>>]
    /\ calls' = <<<<"entry_new", n_new + 1>>>>
    /\ arg' = <<>>
    /\ result' = Ok("enter", n_new + 1)
    /\ UNCHANGED <<generator_stop, readVars, sparseVars, paxVars, ae_filetype, ae_owner, ae_link,
                   free_log, exits, childVars>>

\* the body sets a timestamp of the new entry
Scope_body ==
    /\ pc = "body"
    /\ Set_time

\* the body ends: it runs off its end, returns early, or raises
Scope_exit ==
    /\ Alive
    /\ pc = "body"
    /\ \E kind \in ExitKinds :
         /\ free_log' = new_archive_entry_exit(free_log, _entry_p, kind)
         /\ exits' = exits \cup {kind}
         /\ arg' = <<kind>>
         /\ result' = IF kind = "raise" THEN Raised("scope", "BodyError")
                      ELSE Ok("scope", kind)
    /\ calls' = IF free_log' = free_log THEN <<>> ELSE <<<<"entry_free", _entry_p>>>>
    /\ pc' = "outside"
    /\ UNCHANGED <<generator_stop, readVars, _entry_p, sparseVars, paxVars, metaVars, n_new, childVars>>

(* ----------------------------- link targets ---------------------------- *)
\* what a ctypes string accessor returns: None for a NULL pointer, else the
\* str (wide accessors) or the bytes (byte accessors), which may be empty
None == [t |-> "NoneType", v |-> <<>>]

\* the engine's accessors in the order _linkpath tries them
LinkOrder == <<"symlink_w", "hardlink_w", "symlink", "hardlink">>
LinkFields == {LinkOrder[i] : i \in 1..Len(LinkOrder)}
WideTargets == {None, Str(<<>>), Str(<<97>>), Str(<<98>>)}
ByteTargets == {None, Bytes(<<>>), Bytes(<<97>>), Bytes(<<98>>)}
LinkTargets(field) == IF field \in {"symlink_w", "hardlink_w"} THEN WideTargets ELSE ByteTargets
Links == {l \in [LinkFields -> WideTargets \cup ByteTargets] :
             \A f \in LinkFields : l[f] \in LinkTargets(f)}

\* Python's truth value of None, a str or a bytes
bool(x) == x.v # <<>>

\* Python's `a or b`: a when it is truthy, else b
py_or(a, b) == IF bool(a) THEN a ELSE b

\* a variant that tries the hardlink targets before the symlink targets
_linkpath_hardlinks_first(link) ==
    py_or(link["hardlink_w"], py_or(link["symlink_w"],
          py_or(link["hardlink"], link["symlink"])))

\* ArchiveEntry._linkpath
_linkpath(link) ==
    py_or(link["symlink_w"], py_or(link["hardlink_w"],
          py_or(link["symlink"], link["hardlink"])))

\* ArchiveEntry.islnk
islnk(link) == bool(py_or(link["hardlink_w"], link["hardlink"]))

\* the accessors an `or` chain over the fields evaluates: up to the first truthy one
RECURSIVE OrChainCalls(_, _, _)
OrChainCalls(link, fields, p) ==
    IF fields = <<>> THEN <<>>
    ELSE IF bool(link[Head(fields)]) THEN <<<<"entry_" \o Head(fields), p>>>>
    ELSE <<<<"entry_" \o Head(fields), p>>>> \o OrChainCalls(link, Tail(fields), p)

\* ArchiveEntry.linkpath / linkname: both are property(_linkpath)
Get_link ==
    /\ Alive
    /\ \E prop \in {"linkpath", "linkname"} :
         /\ arg' = <<prop>>
         /\ IF _entry_p # NULL
            THEN /\ result' = Ok(prop, _linkpath(ae_link))
                 /\ calls' = OrChainCalls(ae_link, LinkOrder, _entry_p)
            ELSE /\ calls' = <<<<"entry_symlink_w", _entry_p>>>>
                 /\ \/ result' = Raised(prop, "SIGSEGV")
                    \/ \E garbage \in WideTargets : result' = Ok(prop, garbage)
    /\ UNCHANGED <<generator_stop, readVars, _entry_p, sparseVars, paxVars, metaVars, scopeVars, childVars>>

\* ArchiveEntry.islnk, read next to the filetype the engine holds
Get_islnk ==
    /\ Alive
    /\ arg' = <<"islnk">>
    /\ IF _entry_p # NULL
       THEN /\ result' = Ok("islnk", [islnk |-> islnk(ae_link), filetype |-> ae_filetype])
            /\ calls' = OrChainCalls(ae_link, <<"hardlink_w", "hardlink">>, _entry_p)
       ELSE /\ calls' = <<<<"entry_hardlink_w", _entry_p>>>>
            /\ \/ result' = Raised("islnk", "SIGSEGV")
               \/ \E garbage \in BOOLEAN :
                    result' = Ok("islnk", [islnk |-> garbage, filetype |-> ae_filetype])
    /\ UNCHANGED <<generator_stop, readVars, _entry_p, sparseVars, paxVars, metaVars, scopeVars, childVars>>

(* ------------------------------ get_blocks ----------------------------- *)
\* the member's data is at most MaxData bytes long
MaxData == 3
\* callers pass a block_size of 0..MaxBlock
MaxBlock == 2

DataBytes == {1, 2}
BlockSizes == 0..MaxBlock

\* create_string_buffer(block_size): block_size zero bytes
create_string_buffer(block_size) == [i \in 1..block_size |-> 0]

\* read-data: what the call can return for a buffer of size bytes: 0 at the
\* end of the data (and for an empty buffer), else how many bytes it wrote
ReadReturns(data, size) ==
    IF size = 0 \/ data = <<>> THEN {0}
    ELSE 1..(IF size < Len(data) THEN size ELSE Len(data))

\* read-data returning r: the next r bytes of the data are written over the
\* start of the buffer, the rest of the buffer keeps what it held
read_data(data, b, r) ==
    [data |-> SubSeq(data, r + 1, Len(data)),
     bytes |-> SubSeq(data, 1, r),
     buf |-> [i \in 1..Len(b) |-> IF i <= r THEN data[i] ELSE b[i]]]

\* a variant that yields the whole buffer
get_blocks_chunk_whole_buffer(b, r) == b

\* the chunk get_blocks yields: buf.raw[0:r]
get_blocks_chunk(b, r) == SubSeq(b, 1, r)

NoGenerator == [pc |-> "none", block_size |-> 0]

\* ArchiveEntry.get_blocks(block_size): a generator; nothing of its body
\* runs before the first next()
get_blocks ==
    /\ Alive
    /\ gb.pc \in {"none", "done"}
    /\ \E block_size \in BlockSizes :
         /\ gb' = [pc |-> "created", block_size |-> block_size]
         /\ arg' = <<block_size>>
    /\ buf' = <<>>
    /\ chunks' = <<>>
    /\ delivered' = <<>>
    /\ reads' = <<>>
    /\ calls' = <<>>
    /\ result' = Ok("get_blocks", "generator")
    /\ UNCHANGED <<generator_stop, ar_data, _entry_p, sparseVars, paxVars, metaVars, scopeVars, childVars>>

\* next() on the generator: the body runs to its next yield or to its end;
\* a finished generator raises StopIteration without running anything
get_blocks_next ==
    /\ Alive
    /\ gb.pc \in {"created", "suspended", "done"}
    /\ arg' = <<>>
    /\ IF gb.pc = "done"
       THEN /\ calls' = <<>>
            /\ result' = Raised("next", "StopIteration")
            /\ UNCHANGED readVars
       ELSE LET b == IF gb.pc = "created" THEN create_string_buffer(gb.block_size) ELSE buf
            IN /\ calls' = <<<<"read_data", gb.block_size>>>>
               /\ \/ \* the engine reports a hard error: ffi raises
                     /\ gb' = [gb EXCEPT !.pc = "done"]
                     /\ buf' = b
                     /\ result' = Raised("next", "ArchiveError")
                     /\ UNCHANGED <<ar_data, chunks, delivered, reads>>
                  \/ \E r \in ReadReturns(ar_data, gb.block_size) :
                       LET rd == read_data(ar_data, b, r)
                       IN /\ ar_data' = rd.data
                          /\ buf' = rd.buf
                          /\ delivered' = delivered \o rd.bytes
                          /\ reads' = Append(reads, r)
                          /\ IF r = 0
                             THEN /\ gb' = [gb EXCEPT !.pc = "done"]
                                  /\ result' = Raised("next", "StopIteration")
                                  /\ UNCHANGED chunks
                             ELSE /\ gb' = [gb EXCEPT !.pc = "suspended"]
                                  /\ chunks' = Append(chunks, get_blocks_chunk(rd.buf, r))
                                  /\ result' = Ok("next", get_blocks_chunk(rd.buf, r))
    /\ UNCHANGED <<generator_stop, _entry_p, sparseVars, paxVars, metaVars, scopeVars, childVars>>

(* --------------------------- specifications ---------------------------- *)
\* ArchiveEntry.__init__: the pointer is kept, no child is built
InitEntry ==
    /\ generator_stop \in BOOLEAN
    /\ _sparse_map = [id |-> NoObj, items |-> <<>>]
    /\ _pax_headers = [id |-> NoObj, items |-> EmptyDict]
    /\ sparse0 = ae_sparse
    /\ sparse_cur0 = ae_sparse_cur
    /\ added = <<>>
    /\ add_log = <<>>
    /\ pax0 = ae_pax
    /\ kw_log = <<>>
    /\ time_set = ae_time
    /\ gb = NoGenerator
    /\ buf = <<>>
    /\ chunks = <<>>
    /\ delivered = <<>>
    /\ reads = <<>>
    /\ n_new = 0
    /\ free_log = <<>>
    /\ exits = {}
    /\ builds = [c \in {"sparse", "pax"} |-> 0]
    /\ returned = [c \in {"sparse", "pax"} |-> {}]
    /\ calls = <<>>
    /\ arg = <<>>
    /\ result = Ok("init", "None")

\* the archive stream layer built the entry around the handle of a member
FromReader == _entry_p = HANDLE /\ pc = "reader"

NoSparse == ae_sparse = <<>> /\ ae_sparse_cur = 0
NoPax == ae_pax = <<>> /\ ae_pax_cur = 0
NoLink == ae_link = [f \in LinkFields |-> None]
NoData == ar_data = <<>>
NoMeta ==
    /\ NoLink /\ NoData
    /\ ae_filetype = S_IFREG
    /\ ae_owner = <<0, 0>>
    /\ ae_time = [f \in TimeFields |-> <<0, 0>>]

\* the sparse map of an entry whose sparse list the engine has filled, the
\* cursor at its start
InitSparse ==
    /\ ae_sparse \in EngineLists
    /\ ae_sparse_cur = 0
    /\ NoPax /\ NoMeta
    /\ InitEntry /\ FromReader

NextSparse ==
    \/ sparse_map
    \/ Append_block
    \/ Extend_blocks
    \/ Setitem_block
    \/ Insert_block
    \/ Invalidate

SpecSparse == InitSparse /\ [][NextSparse]_vars

\* the sparse map of an entry whose sparse cursor stands anywhere
InitDrain ==
    /\ ae_sparse \in EngineLists
    /\ ae_sparse_cur \in 0..Len(ae_sparse)
    /\ NoPax /\ NoMeta
    /\ InitEntry /\ FromReader

NextDrain ==
    \/ sparse_map
    \/ Append_block
    \/ Invalidate

SpecDrain == InitDrain /\ [][NextDrain]_vars

\* the PAX headers of an entry whose records the engine has read
InitPax ==
    /\ ae_pax \in SeqsUpTo(RawRecords, MaxPax)
    /\ ae_pax_cur \in 0..Len(ae_pax)
    /\ NoSparse /\ NoMeta
    /\ InitEntry /\ FromReader

NextPax ==
    \/ pax_headers
    \/ Invalidate

SpecPax == InitPax /\ [][NextPax]_vars

\* an entry without records, and one whose archive declared the key "a"
\* twice, the second time percent-encoded
FewRecords == {<<>>, <<<<<<97>>, <<120>>>>, <<<<37, 54, 49>>, <<255>>>>>>}

\* the PAX headers of an entry the caller writes to
InitPaxWrite ==
    /\ ae_pax \in FewRecords
    /\ ae_pax_cur = 0
    /\ NoSparse /\ NoMeta
    /\ InitEntry /\ FromReader

NextPaxWrite ==
    \/ pax_headers
    \/ Set_header
    \/ Update_headers
    \/ Invalidate

SpecPaxWrite == InitPaxWrite /\ [][NextPaxWrite]_vars

\* both children of one entry
Init ==
    /\ ae_sparse \in {<<>>, <<<<0, 1>>>>}
    /\ ae_sparse_cur = 0
    /\ ae_pax \in FewRecords
    /\ ae_pax_cur = 0
    /\ NoMeta
    /\ InitEntry /\ FromReader

Next ==
    \/ sparse_map
    \/ pax_headers
    \/ Append_block
    \/ Set_header
    \/ Invalidate

Spec == Init /\ [][Next]_vars

\* the filetype of an entry and what the predicates make of it
InitType ==
    /\ ae_filetype \in Filetypes
    /\ ae_owner \in {<<o, o>> : o \in Owners}
    /\ ae_time = [f \in TimeFields |-> <<0, 0>>]
    /\ NoSparse /\ NoPax /\ NoLink /\ NoData
    /\ InitEntry /\ FromReader

NextType ==
    \/ Get_scalar
    \/ Classify
    \/ Invalidate

SpecType == InitType /\ [][NextType]_vars

\* every property of an entry, before and after it loses its handle
InitMeta ==
    /\ ae_filetype \in {S_IFREG + 420, S_IFLNK}
    /\ ae_owner = <<1000, 1000>>
    /\ ae_time = [f \in TimeFields |-> <<0, 0>>]
    /\ ae_sparse \in {<<>>, <<<<0, 1>>>>}
    /\ ae_sparse_cur = 0
    /\ NoPax /\ NoLink /\ NoData
    /\ InitEntry /\ FromReader

NextMeta ==
    \/ Get_scalar
    \/ Classify
    \/ Get_time
    \/ sparse_map
    \/ pax_headers
    \/ Invalidate

SpecMeta == InitMeta /\ [][NextMeta]_vars

\* the timestamps of an entry
InitTime ==
    /\ ae_filetype = S_IFREG
    /\ ae_owner = <<0, 0>>
    /\ ae_time \in [TimeFields -> {<<0, 0>>, <<1, 1>>}]
    /\ NoSparse /\ NoPax /\ NoLink /\ NoData
    /\ InitEntry /\ FromReader

NextTime ==
    \/ Get_time
    \/ Set_time

SpecTime == InitTime /\ [][NextTime]_vars

\* a caller that opens new_archive_entry scopes one after the other
InitScope ==
    /\ NoSparse /\ NoPax /\ NoMeta
    /\ InitEntry
    /\ _entry_p = NULL
    /\ pc = "outside"

NextScope ==
    \/ Scope_enter
    \/ Scope_body
    \/ Scope_exit

SpecScope == InitScope /\ [][NextScope]_vars


\* the link targets of an entry
InitLink ==
    /\ ae_link \in Links
    /\ ae_filetype \in {S_IFREG + 420, S_IFLNK + 511}
    /\ ae_owner = <<0, 0>>
    /\ ae_time = [f \in TimeFields |-> <<0, 0>>]
    /\ NoSparse /\ NoPax /\ NoData
    /\ InitEntry /\ FromReader

NextLink ==
    \/ Get_link
    \/ Get_islnk
    \/ Invalidate

SpecLink == InitLink /\ [][NextLink]_vars

\* the data of a member, read block by block; the consumer keeps calling
\* next() on the generator it holds
InitBlocks ==
    /\ ar_data \in SeqsUpTo(DataBytes, MaxData)
    /\ NoSparse /\ NoPax /\ NoLink
    /\ ae_filetype = S_IFREG
    /\ ae_owner = <<0, 0>>
    /\ ae_time = [f \in TimeFields |-> <<0, 0>>]
    /\ InitEntry /\ FromReader

NextBlocks ==
    \/ get_blocks
    \/ get_blocks_next

SpecBlocks == InitBlocks /\ [][NextBlocks]_vars /\ WF_vars(get_blocks_next)

\* a caller that writes to the child it built first: blocks to the sparse
\* map or headers to the PAX headers, with engine calls that can fail
InitWrite ==
    /\ ae_sparse \in {<<>>, <<<<0, 1>>>>}
    /\ ae_sparse_cur = 0
    /\ ae_pax \in FewRecords
    /\ ae_pax_cur = 0
    /\ NoMeta
    /\ InitEntry /\ FromReader

\* the caller appends a block while it has not asked for the headers
Write_block == _pax_headers.id = NoObj /\ Append_block

\* the caller sets a header while it has not asked for the sparse map
Write_header == _sparse_map.id = NoObj /\ Set_header

NextWrite ==
    \/ sparse_map
    \/ pax_headers
    \/ Write_block
    \/ Write_header
    \/ Invalidate

SpecWrite == InitWrite /\ [][NextWrite]_vars
(* ------------------------------- claims -------------------------------- *)

\* C1: on an entry whose engine sparse list was empty, the sparse map holds
\* exactly the blocks the caller added with append and extend, in the order
\* they were added, and the engine received one add-block call per block in
\* that same order.
C1_RoundTrip ==
    (sparse0 = <<>> /\ _sparse_map.id # NoObj) =>
        (_sparse_map.items = added /\ add_log = added)

C1_Witness ==
    /\ sparse0 = <<>>
    /\ _sparse_map.id # NoObj
    /\ result = Ok("extend", "None")
    /\ Len(added) >= 2
    /\ added[1] # added[2]

DecodedKey(i) == decode_pax_kw(pax0[i][1], pax0[i][2])[1]
DecodedValue(i) == decode_pax_kw(pax0[i][1], pax0[i][2])[2]
FirstSeen(i) == \A j \in 1..(i - 1) : DecodedKey(j) # DecodedKey(i)

\* C2: the headers built from the engine's walk hold, for every key of the
\* walk, the value of the first record of the walk with that key; a later
\* record with the same key does not replace it.
C2_FirstSeenWins ==
    (_pax_headers.id # NoObj /\ kw_log = <<>>) =>
        /\ DOMAIN _pax_headers.items = {DecodedKey(i) : i \in 1..Len(pax0)}
        /\ \A i \in 1..Len(pax0) :
             FirstSeen(i) => _pax_headers.items[DecodedKey(i)] = DecodedValue(i)

C2_Witness ==
    /\ _pax_headers.id # NoObj
    /\ \E i, j \in 1..Len(pax0) :
         /\ i < j
         /\ pax0[i][1] # pax0[j][1]
         /\ DecodedKey(i) = DecodedKey(j)
         /\ DecodedValue(i) # DecodedValue(j)

\* C3: item assignment and insert on a sparse map always raise
\* NotImplementedError and leave the local list and the engine's sparse
\* list, cursor and add log as they were.
C3_MutationUnsupported ==
    [][result'.op \in {"setitem", "insert"} =>
          /\ result'.kind = "NotImplementedError"
          /\ _sparse_map' = _sparse_map
          /\ ae_sparse' = ae_sparse
          /\ ae_sparse_cur' = ae_sparse_cur
          /\ add_log' = add_log]_vars

C3_Witness ==
    /\ result.op = "setitem"
    /\ sparse0 # <<>>
    /\ added # <<>>
    /\ Len(_sparse_map.items) >= 2

PropertyOps == ScalarProps \cup {"classify"} \cup TimeFields \cup {"sparse_map", "pax_headers"}

\* C4: on an entry whose pointer is no longer valid, every property access
\* raises the stale-handle error and makes no engine call with the pointer.
C4_StaleHandle ==
    (_entry_p = NULL /\ result.op \in PropertyOps) =>
        (result.kind = StaleError /\ calls = <<>>)

Registered(k) == \E i \in 1..Len(kw_log) : kw_log[i][1] = k
LastRegistered(k) ==
    kw_log[CHOOSE i \in 1..Len(kw_log) :
               kw_log[i][1] = k /\ \A j \in (i + 1)..Len(kw_log) : kw_log[j][1] # k][2]

\* C5: every key the caller has registered is cached with the value of its
\* latest add-record call, every other cached key still has the value read
\* from the archive, and a completed update made one add-record call per
\* key of its argument, in the argument's order.
C5_WriteThrough ==
    _pax_headers.id # NoObj =>
        /\ \A i \in 1..Len(kw_log) : kw_log[i][1] \in DOMAIN _pax_headers.items
        /\ \A k \in DOMAIN _pax_headers.items :
             IF Registered(k)
             THEN _pax_headers.items[k] = LastRegistered(k)
             ELSE \E i \in 1..Len(pax0) :
                    /\ FirstSeen(i)
                    /\ DecodedKey(i) = k
                    /\ DecodedValue(i) = _pax_headers.items[k]
        /\ result = Ok("update", "None") =>
             /\ Len(calls) = Len(arg[1])
             /\ \A i \in 1..Len(calls) :
                  /\ calls[i][1] = "entry_pax_kw_add_entry"
                  /\ calls[i][3] = arg[1][i][1].v
                  /\ calls[i][4] = _pax_headers.items[arg[1][i][1].v]

C5_Witness ==
    /\ result = Ok("update", "None")
    /\ Len(arg[1]) = 2
    /\ arg[1][2][2].t = "int"
    /\ pax0 # <<>>

\* C6: setting a header under a key that is not a str raises the key error,
\* makes no engine call and leaves the cache and the engine's records as
\* they were.
C6_InvalidKey ==
    [][(result'.op = "set" /\ arg'[1].t # "str") =>
          /\ result'.kind = InvalidKeyError
          /\ calls' = <<>>
          /\ _pax_headers' = _pax_headers
          /\ ae_pax' = ae_pax
          /\ ae_pax_cur' = ae_pax_cur
          /\ kw_log' = kw_log]_vars

C6_Witness ==
    /\ result.op = "set"
    /\ arg[1].t = "bytes"
    /\ _entry_p # NULL
    /\ _pax_headers.items # EmptyDict

\* C7: each child accessor returns one object for the life of the entry and
\* each engine cursor is reset at most once.
C7_BuiltOnce ==
    /\ builds["sparse"] <= 1
    /\ builds["pax"] <= 1
    /\ Cardinality(returned["sparse"]) <= 1
    /\ Cardinality(returned["pax"]) <= 1

Frees(h) == Cardinality({i \in 1..Len(free_log) : free_log[i] = h})

\* C8: a handle acquired through new_archive_entry is freed exactly once
\* when its scope is left, however it is left, never while the scope is
\* open, and a failure of the body still reaches the caller.
C8_FreedOnce ==
    /\ \A h \in 1..n_new :
         Frees(h) = IF pc = "body" /\ h = n_new THEN 0 ELSE 1
    /\ Len(free_log) = IF pc = "body" THEN n_new - 1 ELSE n_new
    /\ (result.op = "scope" /\ arg[1] = "raise") => result.kind = "BodyError"

C8_Witness ==
    /\ pc = "outside"
    /\ exits = ExitKinds
    /\ result.kind = "BodyError"

Count(bools) == Cardinality({i \in 1..Len(bools) : bools[i]})

\* C9: isdev holds exactly when one of ischr, isblk, isfifo, issock holds;
\* at most one of the seven type predicates holds; isdev is false for
\* regular files, directories and symlinks.
C9_Classification ==
    (result.op = "classify" /\ result.kind = "ok") =>
        LET v == result.val
        IN /\ v.isdev <=> Count(<<v.ischr, v.isblk, v.isfifo, v.issock>>) = 1
           /\ Count(<<v.isreg, v.isdir, v.issym, v.ischr, v.isblk, v.isfifo, v.issock>>) <= 1
           /\ (v.isreg \/ v.isdir \/ v.issym) => ~v.isdev

C9_Witness ==
    /\ result.op = "classify"
    /\ result.kind = "ok"
    /\ _entry_p # NULL
    /\ result.val.filetype = S_IFSOCK + 420
    /\ result.val.isdev

\* C10: a timestamp read returns the int S when the field was last set to
\* (S, 0) and the float S + N / 1000000000 when it was last set to (S, N)
\* with N # 0, whatever the other two fields were set to.
C10_TimeRoundTrip ==
    (result.op \in TimeFields /\ result.kind = "ok") =>
        LET S == time_set[result.op][1]
            N == time_set[result.op][2]
            v == result.val
        IN IF N = 0
           THEN v = PyInt(S)
           ELSE /\ v.type = "float"
                /\ v.frac \in 0..(NanosPerSec - 1)
                /\ (v.whole - S) * NanosPerSec = N - v.frac

C10_Witness ==
    /\ result.op = "mtime"
    /\ result.kind = "ok"
    /\ time_set["mtime"][2] # 0
    /\ time_set["atime"][2] = 0
    /\ time_set["ctime"] # time_set["mtime"]
    /\ time_set["atime"] # ae_time["ctime"]


RECURSIVE Flatten(_)
Flatten(ss) == IF ss = <<>> THEN <<>> ELSE Head(ss) \o Flatten(Tail(ss))

\* every read-data call but the last returned r > 0 and gave one chunk of r
\* bytes; a call returning 0 is the last one and ends the generator; the
\* chunks put together are the bytes the engine delivered
C11_ChunksAreReads ==
    /\ \A i \in 1..Len(reads) :
         IF reads[i] = 0
         THEN i = Len(reads) /\ gb.pc = "done" /\ Len(chunks) = i - 1
         ELSE i <= Len(chunks) /\ Len(chunks[i]) = reads[i]
    /\ Len(chunks) <= Len(reads)
    /\ Flatten(chunks) = delivered
    /\ (gb.pc = "done" /\ result.op = "next") => result.kind # "ok"

\* C11: get_blocks(block_size) yields, for each read-data call returning
\* r > 0, exactly the first r bytes of the buffer; it ends at the first call
\* returning 0 and reads no further; the yielded chunks put together are the
\* bytes the engine delivered, in order; and a generator the consumer keeps
\* advancing ends, since the engine reports 0 at the end of the data.
C11_GetBlocks ==
    /\ []C11_ChunksAreReads
    /\ (gb.pc \in {"created", "suspended"}) ~> (gb.pc = "done")

\* two chunks were read into a buffer that held more than the second read
\* filled, and the generator ended on a read of 0
C11_Witness ==
    /\ gb.pc = "done"
    /\ Len(chunks) = 2
    /\ Len(chunks[1]) = 2
    /\ Len(chunks[2]) = 1
    /\ chunks[1][1] # chunks[2][1]
    /\ reads = <<2, 1, 0>>
    /\ ar_data = <<>>

\* C12: wherever the engine's sparse cursor stood before, a constructed
\* SparseMap starts with every block of the engine's sparse list, in the
\* engine's order, none skipped and none twice; what follows is what the
\* caller added.
C12_FullDrain ==
    _sparse_map.id # NoObj =>
        /\ Len(_sparse_map.items) = Len(sparse0) + Len(added)
        /\ SubSeq(_sparse_map.items, 1, Len(sparse0)) = sparse0

\* a map was just built from a list of two blocks whose cursor stood at the end
C12_Witness ==
    /\ result = Ok("sparse_map", 1)
    /\ Len(sparse0) = 2
    /\ sparse0[1] # sparse0[2]
    /\ sparse_cur0 = 2
    /\ _sparse_map.items = sparse0

\* C13: building the SparseMap issues no add-block call to the engine: the
\* engine has completed exactly the add-block calls of the caller's
\* append/extend.
C13_ReadOnlyDrain ==
    /\ result.op = "sparse_map" => ~Called(calls, "entry_sparse_add_entry")
    /\ add_log = added

\* C14: when the engine's next-block or next-record primitive returns a
\* non-OK status the sequence ends and the construction of the SparseMap or
\* the PaxHeaders completes: an access with a valid handle returns the child
\* and raises nothing.
C14_CleanEnd ==
    (result.op \in {"sparse_map", "pax_headers"} /\ _entry_p # NULL) => result.kind = "ok"

\* the positions in LinkOrder whose target is not empty
NonEmptyTargets == {i \in 1..Len(LinkOrder) : ae_link[LinkOrder[i]].v # <<>>}

\* C15: linkpath and linkname both give the first non-empty target among
\* wide symlink, wide hardlink, byte symlink, byte hardlink (an empty value
\* when all four are empty), and islnk is true exactly when the wide or the
\* byte hardlink target is non-empty, whatever the filetype.
C15_LinkTarget ==
    /\ (result.op \in {"linkpath", "linkname"} /\ result.kind = "ok" /\ _entry_p # NULL) =>
           IF NonEmptyTargets = {}
           THEN result.val.v = <<>>
           ELSE \E i \in NonEmptyTargets :
                  /\ \A j \in NonEmptyTargets : i <= j
                  /\ result.val = ae_link[LinkOrder[i]]
    /\ (result.op = "islnk" /\ result.kind = "ok" /\ _entry_p # NULL) =>
           (result.val.islnk <=>
               (ae_link["hardlink_w"].v # <<>> \/ ae_link["hardlink"].v # <<>>))

\* linkname skipped an empty wide symlink target and a missing wide hardlink
\* target and gave the byte symlink target, not the byte hardlink target
C15_Witness ==
    /\ result.op = "linkname"
    /\ _entry_p # NULL
    /\ ae_link["symlink_w"] = Str(<<>>)
    /\ ae_link["hardlink_w"] = None
    /\ ae_link["symlink"] = Bytes(<<97>>)
    /\ ae_link["hardlink"] = Bytes(<<98>>)
    /\ result.val = Bytes(<<97>>)
    /\ ae_filetype = S_IFREG + 420

\* the items of a list are the last add-block calls the engine completed
RegisteredBlocks(items, log) ==
    /\ Len(items) <= Len(log)
    /\ items = SubSeq(log, Len(log) - Len(items) + 1, Len(log))

\* C16: append and header assignment call the engine before they touch the
\* list or the dict: a call that fails raises to the caller and leaves the
\* list, the dict and the engine's logs as they were; one that succeeds
\* stores what the engine registered; every item of the list is one whose
\* add-block call completed.
C16_EngineFirst ==
    [][/\ result'.op = "append" =>
            /\ RegisteredBlocks(_sparse_map'.items, add_log')
            /\ IF result'.kind = "ok"
               THEN /\ Len(add_log') = Len(add_log) + 1
                    /\ _sparse_map'.items = Append(_sparse_map.items, add_log'[Len(add_log')])
               ELSE /\ result'.kind \in {"ArgumentError", StaleError}
                    /\ _sparse_map' = _sparse_map
                    /\ add_log' = add_log
                    /\ ae_sparse' = ae_sparse
       /\ result'.op = "set" =>
            IF result'.kind = "ok"
            THEN /\ Len(kw_log') = Len(kw_log) + 1
                 /\ kw_log'[Len(kw_log')][1] = arg'[1].v
                 /\ _pax_headers'.items =
                        DictSet(_pax_headers.items, arg'[1].v, kw_log'[Len(kw_log')][2])
            ELSE /\ result'.kind \in {"ArgumentError", StaleError, InvalidKeyError}
                 /\ _pax_headers' = _pax_headers
                 /\ kw_log' = kw_log
                 /\ ae_pax' = ae_pax
      ]_vars

\* the engine call of an append to a non-empty map failed
C16_Witness ==
    /\ result = Raised("append", "ArgumentError")
    /\ Len(calls) = 1
    /\ _sparse_map.items # <<>>
    /\ _entry_p # NULL
====
